---- MODULE Spec2Model ----
(***************************************************************************)
(* three-extruded-image: the ExtrudedImage class of src/src/extruder.ts.   *)
(*                                                                         *)
(* The model covers the geometric core: the Grid mesher                    *)
(* (createGeometryFromImageData with isSolid), the Contour Tracer          *)
(* (traceOutline) with the legacy createGeometry / setUVs, and the         *)
(* asynchronous loadImage that chooses between them.  An image is its      *)
(* width, its height and the alpha byte of every pixel in row-major order; *)
(* the colour bytes are never read by the modelled code.  In vts the depth *)
(* coordinate is kept in units of d2 = thickness / 2; every other number   *)
(* that need not be an integer is an exact fraction <<num, den>>, with     *)
(* <<0, 0>> for NaN.                                                       *)
(***************************************************************************)
EXTENDS Integers, Sequences, FiniteSets, TLC

VARIABLES
    img,             \* the HTMLImageElement: [width, height, data (alpha per pixel)]
    gif,             \* the frames GifReader decodes from img.src, <<>> when not a GIF
    alphaThreshold,  \* options.alphaThreshold
    legacy,          \* options.legacy
    thickness,       \* options.thickness
    size,            \* options.size
    customMaterial,  \* options.customMaterial: "none", "basic" or "standard"
    pc,              \* where loadImage is: "await", "done" or "failed"
    isGif,           \* this.isGif
    geometries,      \* this.geometries
    mesh,            \* this.mesh: "null", "grid" or "legacy"
    scale,           \* this.mesh.scale
    children,        \* this.children: the meshes added to the object
    imageData,       \* the ImageData handed to createGeometryFromImageData
    vts,             \* positions pushed by createGeometryFromImageData
    uvs,             \* texture coordinates, after the sx / sy scaling
    indices,         \* triangle index list
    positions,       \* position attribute of the mesh's geometry
    solidCalls,      \* the isSolid calls made by the edge scan, with what each read
    data,            \* traceOutline's thresholded copy of the image's alpha bytes
    outline,         \* traceOutline's outline
    bounds,          \* traceOutline's bounds
    found,           \* value of `found` when the contour walk's do-while was left
    traced,          \* whether traceOutline has returned
    shape,           \* the points of createGeometry's THREE.Shape
    uvAttribute,     \* uv attribute of the legacy geometry, as setUVs leaves it
    material,        \* this.material: "null", "basic" (MeshBasicMaterial) or
                     \* "standard" (MeshStandardMaterial)
    animationId,     \* this.animationId: "null" or "requested"
    frameRequested,  \* whether a callback of requestAnimationFrame is pending
    mixerTime,       \* animationMixer.time in half frame periods, kept modulo
                     \* the 2 * gifFrames.length of one round of the frames
    displayedFrame,  \* the k with mesh.geometry = geometries[k], map = textures[k]
    disposed,        \* whether dispose() has been called and has returned
    currentMesh,     \* currentMesh of src/src/main.ts: "null" or "extrudedImage"
    thrown           \* the TypeError the demo's slider handler last ended with

vars == <<img, gif, alphaThreshold, legacy, thickness, size, customMaterial,
          pc, isGif, geometries, mesh, scale, children, imageData, vts, uvs,
          indices, positions, solidCalls, data, outline, bounds, found, traced,
          shape, uvAttribute, material, animationId, frameRequested, mixerTime,
          displayedFrame, disposed, currentMesh, thrown>>

inputVars ==
    <<img, gif, alphaThreshold, legacy, thickness, size, customMaterial>>

animationVars == <<animationId, frameRequested, mixerTime, displayedFrame>>

demoVars == <<currentMesh, thrown>>

gridVars == <<imageData, vts, uvs, indices, solidCalls>>

traceVars == <<data, outline, bounds, found, traced>>

legacyVars == <<shape, uvAttribute>>

meshVars == <<mesh, scale, children, positions>>

loadVars == <<pc, isGif, geometries>>

-----------------------------------------------------------------------------
(* Bounds of the model.                                                    *)

\* Every alpha pattern is enumerated for the images of at most MaxCells
\* pixels whose sides are at most MaxSide, and for the 3x3 images.
MaxCells == 6

MaxSide == 3

\* Fully opaque and fully transparent images go up to MaxSolid x MaxSolid.
MaxSolid == 5

\* Images holding one solid rectangle or two 2x2 blocks go up to
\* MaxSceneW x MaxSceneH.
MaxSceneW == 6

MaxSceneH == 3

\* GIF input is tried on the images of at most MaxGifCells pixels, with at
\* most MaxFrames frames.
MaxGifCells == 1

MaxFrames == 2

\* The options are varied on the images of at most MaxOptionCells pixels;
\* thickness and size go from -1 to MaxOption.
MaxOptionCells == 4

MaxOption == 2

\* Alpha values of the enumerated images, and the thresholds tried.
AlphaLevels == {0, 255}

Thresholds == {0, 128, 255}

-----------------------------------------------------------------------------
(* Typed-array reads and JavaScript comparisons.                           *)

\* Reading a typed array out of range yields undefined.
Undefined == -1

\* The marker of an isSolid call that returned before reading the buffer.
NoRead == -2

Min(a, b) == IF a < b THEN a ELSE b

Max(a, b) == IF a > b THEN a ELSE b

\* Byte k of an RGBA buffer whose alpha bytes are `alphas` (pixel p at p + 1).
DataAt(alphas, k) ==
    IF k < 0 \/ k >= 4 * Len(alphas) THEN Undefined
    ELSE IF k % 4 = 3 THEN alphas[(k \div 4) + 1]
    ELSE 0

\* a < b, a > b, a >= b of JavaScript: false when a is undefined.
Lt(a, b) == a # Undefined /\ a < b

Gt(a, b) == a # Undefined /\ a > b

Ge(a, b) == a # Undefined /\ a >= b

-----------------------------------------------------------------------------
(* JavaScript numbers that need not be integers: <<num, den>> with den > 0, *)
(* computed exactly.  A den of 0 is a value that is not finite; the only    *)
(* one the modelled code produces is NaN (0 / 0), which every operation     *)
(* hands on.                                                                *)

NaN == <<0, 0>>

Num(n) == <<n, 1>>

Finite(a) == a[2] # 0

FNeg(a) == IF Finite(a) THEN <<-a[1], a[2]>> ELSE NaN

FAdd(a, b) ==
    IF Finite(a) /\ Finite(b)
    THEN <<a[1] * b[2] + b[1] * a[2], a[2] * b[2]>> ELSE NaN

FSub(a, b) ==
    IF Finite(a) /\ Finite(b)
    THEN <<a[1] * b[2] - b[1] * a[2], a[2] * b[2]>> ELSE NaN

FMul(a, b) ==
    IF Finite(a) /\ Finite(b) THEN <<a[1] * b[1], a[2] * b[2]>> ELSE NaN

\* a / b: 0 / 0 is NaN, x / 0 an infinity of the sign of x.
FDiv(a, b) ==
    IF ~(Finite(a) /\ Finite(b)) THEN NaN
    ELSE IF b[1] = 0
         THEN (IF a[1] = 0 THEN NaN ELSE IF a[1] > 0 THEN <<1, 0>> ELSE <<-1, 0>>)
    ELSE IF b[1] > 0 THEN <<a[1] * b[2], a[2] * b[1]>>
    ELSE <<-(a[1] * b[2]), -(a[2] * b[1])>>

\* a <= b, a < b and a === b of JavaScript: false when either is NaN.
FLe(a, b) == Finite(a) /\ Finite(b) /\ a[1] * b[2] <= b[1] * a[2]

FLt(a, b) == Finite(a) /\ Finite(b) /\ a[1] * b[2] < b[1] * a[2]

FEq(a, b) == Finite(a) /\ Finite(b) /\ a[1] * b[2] = b[1] * a[2]

\* Math.min and Math.max: NaN when either argument is.
FMin(a, b) ==
    IF ~(Finite(a) /\ Finite(b)) THEN NaN ELSE IF FLe(a, b) THEN a ELSE b

FMax(a, b) ==
    IF ~(Finite(a) /\ Finite(b)) THEN NaN ELSE IF FLe(a, b) THEN b ELSE a

\* The least and the greatest of a non-empty set of numbers, as repeated
\* Math.min / Math.max computes them.
FMinOf(S) ==
    IF \E a \in S : ~Finite(a) THEN NaN
    ELSE CHOOSE a \in S : \A b \in S : FLe(a, b)

FMaxOf(S) ==
    IF \E a \in S : ~Finite(a) THEN NaN
    ELSE CHOOSE a \in S : \A b \in S : FLe(b, a)

-----------------------------------------------------------------------------
(* The images the model is run on.                                         *)

Image(w, h, alphas) == [width |-> w, height |-> h, data |-> alphas]

\* Alpha bytes of a w x h image that is opaque exactly on the cells of S.
Paint(w, h, S) ==
    [p \in 1..(w * h) |->
        IF <<(p - 1) % w, (p - 1) \div w>> \in S THEN 255 ELSE 0]

Rect(x0, y0, rw, rh) == (x0..(x0 + rw - 1)) \X (y0..(y0 + rh - 1))

AllImages ==
    UNION {UNION {{Image(w, h, a) : a \in [1..(w * h) -> AlphaLevels]} :
                  h \in {k \in 1..MaxSide : w * k <= MaxCells}} :
           w \in 1..MaxSide}

UniformImages ==
    {Image(w, h, [p \in 1..(w * h) |-> a]) :
        w \in 1..MaxSolid, h \in 1..MaxSolid, a \in AlphaLevels}

RectImages ==
    UNION {{Image(MaxSceneW, MaxSceneH,
                  Paint(MaxSceneW, MaxSceneH, Rect(x0, y0, rw, rh))) :
               rw \in 1..(MaxSceneW - x0), rh \in 1..(MaxSceneH - y0)} :
           x0 \in 0..(MaxSceneW - 1), y0 \in 0..(MaxSceneH - 1)}

BlockImages ==
    {Image(MaxSceneW, MaxSceneH,
           Paint(MaxSceneW, MaxSceneH,
                 Rect(a[1], a[2], 2, 2) \cup Rect(b[1], b[2], 2, 2))) :
        a \in (0..(MaxSceneW - 2)) \X (0..(MaxSceneH - 2)),
        b \in (0..(MaxSceneW - 2)) \X (0..(MaxSceneH - 2))}

\* Every alpha pattern of the 3x3 image, the smallest with an inner pixel.
SquareImages == {Image(3, 3, a) : a \in [1..9 -> AlphaLevels]}

Images ==
    AllImages \cup SquareImages \cup UniformImages \cup RectImages
        \cup BlockImages

\* Images without area.
ZeroAreaImages == {Image(0, 0, <<>>), Image(0, 1, <<>>), Image(1, 0, <<>>)}

OptionImages ==
    UNION {UNION {{Image(w, h, a) : a \in [1..(w * h) -> AlphaLevels]} :
                  h \in {k \in 1..MaxOptionCells : w * k <= MaxOptionCells}} :
           w \in 1..MaxOptionCells}

-----------------------------------------------------------------------------
(* Grid path: isSolid and createGeometryFromImageData.                     *)

\* isSolidIndex with the bounds test off by one (x > width, y > height).
isSolidIndexOffByOne(id, x, y) ==
    IF x < 0 \/ y < 0 \/ x > id.width \/ y > id.height THEN NoRead
    ELSE (y * id.width + x) * 4 + 3

\* The buffer index isSolid reads, NoRead when the bounds test returns first.
isSolidIndex(id, x, y) ==
    IF x < 0 \/ y < 0 \/ x >= id.width \/ y >= id.height THEN NoRead
    ELSE (y * id.width + x) * 4 + 3

\* isSolid with alpha > alphaThreshold for its test.
isSolidStrict(id, x, y) ==
    LET i == isSolidIndex(id, x, y)
    IN  IF i = NoRead THEN FALSE
        ELSE Gt(DataAt(id.data, i), alphaThreshold)

isSolid(id, x, y) ==
    LET i == isSolidIndex(id, x, y)
    IN  IF i = NoRead THEN FALSE
        ELSE Ge(DataAt(id.data, i), alphaThreshold)

\* The record of one isSolid call: arguments, index read, value returned.
SolidCall(id, x, y) ==
    [x |-> x, y |-> y, read |-> isSolidIndex(id, x, y), ret |-> isSolid(id, x, y)]

\* Front and back face: 8 vertices, their uvs in pixels, 4 triangles.
CapGeometry(w, h) ==
    [vts |-> << <<0, 0, 1>>, <<w, 0, 1>>, <<w, h, 1>>, <<0, h, 1>>,
                <<0, 0, -1>>, <<w, 0, -1>>, <<w, h, -1>>, <<0, h, -1>> >>,
     uvs |-> << <<0, 0>>, <<2 * w, 0>>, <<2 * w, 2 * h>>, <<0, 2 * h>>,
                <<0, 0>>, <<2 * w, 0>>, <<2 * w, 2 * h>>, <<0, 2 * h>> >>,
     indices |-> <<0, 1, 2, 2, 3, 0, 4, 7, 6, 6, 5, 4>>,
     vt |-> 8]

\* pushFace with its indices counted from vt + 1.
pushFaceOffByOne(g, x1, y1, x2, y2) ==
    LET ux == 2 * Min(x1, x2) + (IF y1 < y2 THEN -1 ELSE 1)
        uy == 2 * Min(y1, y2) + (IF x2 < x1 THEN -1 ELSE 1)
        vt == g.vt + 1
    IN  [vts |-> g.vts \o << <<x1, y1, -1>>, <<x2, y2, -1>>,
                             <<x2, y2, 1>>, <<x1, y1, 1>> >>,
         uvs |-> g.uvs \o << <<ux, uy>>, <<ux, uy>>, <<ux, uy>>, <<ux, uy>> >>,
         indices |-> g.indices \o <<vt + 0, vt + 1, vt + 2, vt + 2, vt + 3, vt + 0>>,
         vt |-> g.vt + 4]

\* pushFace with its two triangles wound the other way round.
pushFaceReversed(g, x1, y1, x2, y2) ==
    LET ux == 2 * Min(x1, x2) + (IF y1 < y2 THEN -1 ELSE 1)
        uy == 2 * Min(y1, y2) + (IF x2 < x1 THEN -1 ELSE 1)
        vt == g.vt
    IN  [vts |-> g.vts \o << <<x1, y1, -1>>, <<x2, y2, -1>>,
                             <<x2, y2, 1>>, <<x1, y1, 1>> >>,
         uvs |-> g.uvs \o << <<ux, uy>>, <<ux, uy>>, <<ux, uy>>, <<ux, uy>> >>,
         indices |-> g.indices \o <<vt + 0, vt + 2, vt + 1, vt + 2, vt + 0, vt + 3>>,
         vt |-> vt + 4]

\* pushFace with the first endpoint of the edge, (x1, y1), for its uv.
pushFaceEndpointUV(g, x1, y1, x2, y2) ==
    LET ux == 2 * x1
        uy == 2 * y1
        vt == g.vt
    IN  [vts |-> g.vts \o << <<x1, y1, -1>>, <<x2, y2, -1>>,
                             <<x2, y2, 1>>, <<x1, y1, 1>> >>,
         uvs |-> g.uvs \o << <<ux, uy>>, <<ux, uy>>, <<ux, uy>>, <<ux, uy>> >>,
         indices |-> g.indices \o <<vt + 0, vt + 1, vt + 2, vt + 2, vt + 3, vt + 0>>,
         vt |-> vt + 4]

\* pushFace with the two half-pixel offsets of its uv swapped in sign.
pushFaceOtherSide(g, x1, y1, x2, y2) ==
    LET ux == 2 * Min(x1, x2) + (IF y1 < y2 THEN 1 ELSE -1)
        uy == 2 * Min(y1, y2) + (IF x2 < x1 THEN 1 ELSE -1)
        vt == g.vt
    IN  [vts |-> g.vts \o << <<x1, y1, -1>>, <<x2, y2, -1>>,
                             <<x2, y2, 1>>, <<x1, y1, 1>> >>,
         uvs |-> g.uvs \o << <<ux, uy>>, <<ux, uy>>, <<ux, uy>>, <<ux, uy>> >>,
         indices |-> g.indices \o <<vt + 0, vt + 1, vt + 2, vt + 2, vt + 3, vt + 0>>,
         vt |-> vt + 4]

\* pushFace: 4 vertices, one uv (in half pixels) repeated 4 times, 2 triangles.
pushFace(g, x1, y1, x2, y2) ==
    LET ux == 2 * Min(x1, x2) + (IF y1 < y2 THEN -1 ELSE 1)
        uy == 2 * Min(y1, y2) + (IF x2 < x1 THEN -1 ELSE 1)
        vt == g.vt
    IN  [vts |-> g.vts \o << <<x1, y1, -1>>, <<x2, y2, -1>>,
                             <<x2, y2, 1>>, <<x1, y1, 1>> >>,
         uvs |-> g.uvs \o << <<ux, uy>>, <<ux, uy>>, <<ux, uy>>, <<ux, uy>> >>,
         indices |-> g.indices \o <<vt + 0, vt + 1, vt + 2, vt + 2, vt + 3, vt + 0>>,
         vt |-> vt + 4]

\* One face, as the arguments of its pushFace call.
Face(x1, y1, x2, y2) == <<x1, y1, x2, y2>>

\* ScanCell without its last test (!top && bottom).
ScanCellThreeTests(id, x, y) ==
    LET left == isSolid(id, x, y)
        right == isSolid(id, x - 1, y)
        top == isSolid(id, x, y - 1)
        bottom == isSolid(id, x, y)
    IN  (IF ~left /\ right THEN <<Face(x, y, x, y + 1)>> ELSE <<>>)
        \o (IF left /\ ~right THEN <<Face(x, y + 1, x, y)>> ELSE <<>>)
        \o (IF top /\ ~bottom THEN <<Face(x + 1, y, x, y)>> ELSE <<>>)

\* ScanCell with `right` read from x + 1 instead of x - 1.
ScanCellWrongSide(id, x, y) ==
    LET left == isSolid(id, x, y)
        right == isSolid(id, x + 1, y)
        top == isSolid(id, x, y - 1)
        bottom == isSolid(id, x, y)
    IN  (IF ~left /\ right THEN <<Face(x, y, x, y + 1)>> ELSE <<>>)
        \o (IF left /\ ~right THEN <<Face(x, y + 1, x, y)>> ELSE <<>>)
        \o (IF top /\ ~bottom THEN <<Face(x + 1, y, x, y)>> ELSE <<>>)
        \o (IF ~top /\ bottom THEN <<Face(x, y, x + 1, y)>> ELSE <<>>)

\* The body of the edge scan at one (x, y): the pushFace calls it makes, in
\* the order of its four tests.
ScanCell(id, x, y) ==
    LET left == isSolid(id, x, y)
        right == isSolid(id, x - 1, y)
        top == isSolid(id, x, y - 1)
        bottom == isSolid(id, x, y)
    IN  (IF ~left /\ right THEN <<Face(x, y, x, y + 1)>> ELSE <<>>)
        \o (IF left /\ ~right THEN <<Face(x, y + 1, x, y)>> ELSE <<>>)
        \o (IF top /\ ~bottom THEN <<Face(x + 1, y, x, y)>> ELSE <<>>)
        \o (IF ~top /\ bottom THEN <<Face(x, y, x + 1, y)>> ELSE <<>>)

\* The calls of every step: step n of
\* for (y = -1; y <= h; y++) for (x = -1; x <= w; x++), counted from 0,
\* is at x = n % (w + 2) - 1, y = n \div (w + 2) - 1.
ScanSteps(id) ==
    [n \in 0..((id.width + 2) * (id.height + 2) - 1) |->
        ScanCell(id, (n % (id.width + 2)) - 1, (n \div (id.width + 2)) - 1)]

\* The pushFace calls of the scan, each as <<step, number within the step>>.
CallsOf(steps) ==
    {f \in (DOMAIN steps) \X (1..4) : f[2] <= Len(steps[f[1]])}

\* How many calls are made before call f: those of the earlier steps and the
\* earlier ones of its own step.
CallRank(F) ==
    [f \in F |->
        Cardinality({e \in F : e[1] < f[1] \/ (e[1] = f[1] /\ e[2] < f[2])})]

\* The pushFace calls of the whole scan in the order they are made.
InCallOrder(steps, F, rank) ==
    [k \in 1..Cardinality(F) |->
        LET f == CHOOSE e \in F : rank[e] = k - 1
        IN  steps[f[1]][f[2]]]

CallOrder(steps, F) == InCallOrder(steps, F, CallRank(F))

InScanOrder(steps) == CallOrder(steps, CallsOf(steps))

EdgeScanFaces(id) == InScanOrder(ScanSteps(id))

\* The geometry after the first k pushFace calls of `faces`.
RECURSIVE PushFaces(_, _, _)
PushFaces(g, faces, k) ==
    IF k = 0 THEN g
    ELSE pushFace(PushFaces(g, faces, k - 1),
                  faces[k][1], faces[k][2], faces[k][3], faces[k][4])

\* The edge scan, started from the geometry g.
EdgeScan(id, g, faces) == PushFaces(g, faces, Len(faces))

\* Every isSolid call of the scan.
ScanCalls(id) ==
    UNION {{SolidCall(id, x, y), SolidCall(id, x - 1, y), SolidCall(id, x, y - 1)} :
           x \in (-1)..id.width, y \in (-1)..id.height}

\* uvs[i] *= sx; uvs[i + 1] *= sy, with the uv held in half pixels.
ScaleUV(uv, w, h) == << <<uv[1], 2 * w>>, <<uv[2], 2 * h>> >>

\* The loop over uvs that applies sx and sy.
ScaleGeometry(g, w, h) ==
    [vts |-> g.vts,
     uvs |-> [i \in 1..Len(g.uvs) |-> ScaleUV(g.uvs[i], w, h)],
     indices |-> g.indices]

\* Vertex with d2 = thickness instead of thickness / 2.
VertexFullDepth(v) == <<Num(v[1]), Num(v[2]), <<v[3] * thickness, 1>> >>

\* The vertex v of vts as three numbers: its depth is v[3] * d2.
Vertex(v) == <<Num(v[1]), Num(v[2]), <<v[3] * thickness, 2>> >>

\* The k-th coordinates of the points ps.
Coordinates(ps, k) == {ps[i][k] : i \in 1..Len(ps)}

\* The centre of the bounding box of ps (computeBoundingBox, getCenter).
BoxCenter(ps) ==
    [k \in 1..3 |->
        FDiv(FAdd(FMinOf(Coordinates(ps, k)), FMaxOf(Coordinates(ps, k))),
             Num(2))]

\* center taking the least corner of the bounding box for its centre.
centerOnMin(ps) == [k \in 1..3 |-> FMinOf(Coordinates(ps, k))]

\* g.center(): the offset it takes from every position, the centre of the
\* bounding box.
center(ps) == BoxCenter(ps)

Translate(p, c) == <<FSub(p[1], c[1]), FSub(p[2], c[2]), FSub(p[3], c[3])>>

\* g.scale(s, s, 1), at one position
scaleXY(p, s) == <<FMul(p[1], s), FMul(p[2], s), p[3]>>

\* g.rotateX(-Math.PI), at one position: y and z change sign (cos taken as
\* -1, sin as 0).
rotateX(p) == <<p[1], FNeg(p[2]), FNeg(p[3])>>

\* let s = Math.max(sx, sy), with sx = 1 / w and sy = 1 / h.
NormalScale(w, h) == FMax(FDiv(Num(1), Num(w)), FDiv(Num(1), Num(h)))

PlacedAt(ps, c, s) ==
    [i \in 1..Len(ps) |-> rotateX(scaleXY(Translate(ps[i], c), s))]

\* The position attribute after center, scale and rotateX.
Placed(ps, w, h) ==
    CHOOSE r \in {PlacedAt(ps, c, s) :
                     c \in {center(ps)}, s \in {NormalScale(w, h)}} : TRUE

WithPositions(g, w, h) ==
    [vts |-> g.vts, uvs |-> g.uvs, indices |-> g.indices,
     positions |-> Placed([i \in 1..Len(g.vts) |-> Vertex(g.vts[i])], w, h)]

createGeometryFromImageData(id) ==
    WithPositions(
        ScaleGeometry(EdgeScan(id, CapGeometry(id.width, id.height),
                               EdgeScanFaces(id)),
                      id.width, id.height),
        id.width, id.height)

-----------------------------------------------------------------------------
(* Contour path: traceOutline.                                             *)

\* ApplyThreshold that leaves the alpha of the other pixels as it is.
ApplyThresholdKeepAlpha(alphas) ==
    [p \in 1..Len(alphas) |-> IF alphas[p] < alphaThreshold THEN 0 ELSE alphas[p]]

\* ApplyThreshold with alpha <= threshold made transparent.
ApplyThresholdInclusive(alphas) ==
    [p \in 1..Len(alphas) |-> IF alphas[p] <= alphaThreshold THEN 0 ELSE 255]

\* "Apply threshold": alpha < threshold becomes 0, anything else 255.
ApplyThreshold(alphas) ==
    [p \in 1..Len(alphas) |-> IF alphas[p] < alphaThreshold THEN 0 ELSE 255]

\* The bounds of the no-context return, {0, 0, 0, 0}, used as the start.
InitialBoundsZero(im) ==
    [minX |-> 0, minY |-> 0, maxX |-> 0, maxY |-> 0]

InitialBounds(im) ==
    [minX |-> im.width, minY |-> im.height, maxX |-> 0, maxY |-> 0]

updateBounds(b, x, y) ==
    [minX |-> Min(b.minX, x), minY |-> Min(b.minY, y),
     maxX |-> Max(b.maxX, x), maxY |-> Max(b.maxY, y)]

\* isEdge without the border and neighbour tests: every solid pixel.
isEdgeAnySolid(d, w, h, x, y) ==
    IF x < 0 \/ x >= w \/ y < 0 \/ y >= h THEN FALSE
    ELSE Gt(DataAt(d, (y * w + x) * 4 + 3), alphaThreshold)

\* isEdge of traceOutline; d is the thresholded buffer, w x h the image.
isEdge(d, w, h, x, y) ==
    IF x < 0 \/ x >= w \/ y < 0 \/ y >= h THEN FALSE
    ELSE /\ Gt(DataAt(d, (y * w + x) * 4 + 3), alphaThreshold)
         /\ \/ x = 0
            \/ y = 0
            \/ x = w - 1
            \/ y = h - 1
            \/ Lt(DataAt(d, ((y - 1) * w + x) * 4 + 3), alphaThreshold)
            \/ Lt(DataAt(d, ((y + 1) * w + x) * 4 + 3), alphaThreshold)
            \/ Lt(DataAt(d, (y * w + x - 1) * 4 + 3), alphaThreshold)
            \/ Lt(DataAt(d, (y * w + x + 1) * 4 + 3), alphaThreshold)

\* directions with a step of two cells to the right.
directionsLongStep ==
    << <<0, -1>>, <<1, -1>>, <<2, 0>>, <<1, 1>>,
       <<0, 1>>, <<-1, 1>>, <<-1, 0>>, <<-1, -1>> >>

directions ==
    << <<0, -1>>, <<1, -1>>, <<1, 0>>, <<1, 1>>,
       <<0, 1>>, <<-1, 1>>, <<-1, 0>>, <<-1, -1>> >>

\* FirstDir with the search begun one direction after the one of arrival,
\* the direction of arrival itself left out.
FirstDirAfterArrival(d, w, h, x, y, dir, visited) ==
    LET ok(i) ==
            LET nd == directions[((dir + 1 + i) % Len(directions)) + 1]
            IN  /\ isEdge(d, w, h, x + nd[1], y + nd[2])
                /\ <<x + nd[1], y + nd[2]>> \notin visited
    IN  IF \E i \in 0..(Len(directions) - 1) : ok(i)
        THEN 1 + CHOOSE i \in 0..(Len(directions) - 1) :
                     ok(i) /\ \A j \in 0..(i - 1) : ~ok(j)
        ELSE Len(directions)

\* The i of the inner for loop at which the walk moves on, 8 when none does.
FirstDir(d, w, h, x, y, dir, visited) ==
    LET ok(i) ==
            LET nd == directions[((dir + i) % Len(directions)) + 1]
            IN  /\ isEdge(d, w, h, x + nd[1], y + nd[2])
                /\ <<x + nd[1], y + nd[2]>> \notin visited
    IN  IF \E i \in 0..(Len(directions) - 1) : ok(i)
        THEN CHOOSE i \in 0..(Len(directions) - 1) :
                 ok(i) /\ \A j \in 0..(i - 1) : ~ok(j)
        ELSE Len(directions)

\* The do-while of the inner traceOutline.  Walk is one pass from its top:
\* the push, visited.add and updateBounds; WalkFrom is the for loop over
\* the directions and the loop's exit tests.  st is <<startX, startY>>; the
\* result holds `found` as the loop left it.
RECURSIVE Walk(_, _, _, _, _, _, _, _, _, _)
WalkFrom(d, w, h, st, x, y, dir, out, b, vis) ==
    LET i == FirstDir(d, w, h, x, y, dir, vis)
        newDir == (dir + i) % Len(directions)
        newX == x + directions[newDir + 1][1]
        newY == y + directions[newDir + 1][2]
    IN  IF i = Len(directions)
        THEN [outline |-> out, bounds |-> b, found |-> FALSE]
        ELSE IF newX = st[1] /\ newY = st[2]
        THEN [outline |-> out, bounds |-> b, found |-> TRUE]
        ELSE Walk(d, w, h, st, newX, newY, newDir, out, b, vis)

Walk(d, w, h, st, x, y, dir, out, b, visited) ==
    WalkFrom(d, w, h, st, x, y, dir, Append(out, <<x, y>>),
             updateBounds(b, x, y), visited \cup {<<x, y>>})

\* StartPixel that keeps the last edge pixel of the scan (no break).
StartPixelLast(d, w, h) ==
    LET E == {p \in 0..(w * h - 1) : isEdge(d, w, h, p % w, p \div w)}
    IN  IF E = {} THEN <<-1, -1>>
        ELSE LET p == CHOOSE q \in E : \A q2 \in E : q >= q2
             IN  <<p % w, p \div w>>

\* The outerLoop scan: the first (x, y) in row-major order with isEdge,
\* <<-1, -1>> when there is none.
StartPixel(d, w, h) ==
    LET E == {p \in 0..(w * h - 1) : isEdge(d, w, h, p % w, p \div w)}
    IN  IF E = {} THEN <<-1, -1>>
        ELSE LET p == CHOOSE q \in E : \A q2 \in E : q <= q2
             IN  <<p % w, p \div w>>

TraceFrom(d, im, st) ==
    IF st[1] # -1 /\ st[2] # -1
    THEN Walk(d, im.width, im.height, st, st[1], st[2], 0,
              <<>>, InitialBounds(im), {})
    ELSE [outline |-> <<>>, bounds |-> InitialBounds(im), found |-> FALSE]

TraceResult(d, r) ==
    [data |-> d, outline |-> r.outline, bounds |-> r.bounds, found |-> r.found]

TraceData(d, im) ==
    TraceResult(d, TraceFrom(d, im, StartPixel(d, im.width, im.height)))

\* traceOutline(img), with a 2D context available: the thresholded buffer and
\* the returned {outline, bounds}.
traceOutline(im) == TraceData(ApplyThreshold(im.data), im)

-----------------------------------------------------------------------------
(* Contour path: createGeometry and setUVs.                                *)

\* The point the shape gets for the outline point (x, y); sz is options.size.
ShapePoint(x, y, b, sz) ==
    LET width == Num(b.maxX - b.minX)
        height == Num(b.maxY - b.minY)
        normalizedX == FDiv(Num(x - b.minX), width)
        normalizedY == FDiv(Num(y - b.minY), height)
    IN  <<FMul(FSub(normalizedX, <<1, 2>>), Num(sz)),
          FMul(FSub(<<1, 2>>, normalizedY), Num(sz))>>

\* outline.forEach: moveTo the first point, lineTo every other.
ShapeOf(out, b, sz) ==
    [i \in 1..Len(out) |-> ShapePoint(out[i][1], out[i][2], b, sz)]

\* The two lids of the extrusion: the triangles of the shape's triangulation
\* at depth 0 and at depth `depth`, of which every vertex is a point of the
\* shape; kept as the points of the shape at either depth.  Fewer than three
\* points give no triangle.
Lids(sh, depth) ==
    IF Len(sh) < 3 THEN <<>>
    ELSE [i \in 1..(2 * Len(sh)) |->
             IF i <= Len(sh) THEN <<sh[i][1], sh[i][2], Num(0)>>
             ELSE <<sh[i - Len(sh)][1], sh[i - Len(sh)][2], Num(depth)>>]

\* The side wall of the extrusion: one quad per segment of the closed
\* contour, from point i to the next one (from the last to the first), with
\* its corners at depth 0 and at depth `depth`.
SideWalls(sh, depth) ==
    [j \in 1..(4 * Len(sh)) |->
        LET i == ((j - 1) \div 4) + 1
            p == IF (j - 1) % 4 \in {0, 3} THEN sh[i] ELSE sh[(i % Len(sh)) + 1]
        IN  <<p[1], p[2], IF (j - 1) % 4 < 2 THEN Num(0) ELSE Num(depth)>>]

\* new THREE.ExtrudeGeometry(shape, {depth, bevelEnabled: false}): the
\* vertices of the lids, then those of the side wall; every one is a point
\* of the shape at depth 0 or at depth `depth`.  A shape of fewer than two
\* points has no curve, hence no vertex.
ExtrudeGeometry(sh, depth) ==
    IF Len(sh) < 2 THEN <<>>
    ELSE Lids(sh, depth) \o SideWalls(sh, depth)

\* geometry.computeBoundingBox()
BoundingBoxOf(ps) ==
    [min |-> [k \in 1..3 |-> FMinOf(Coordinates(ps, k))],
     max |-> [k \in 1..3 |-> FMaxOf(Coordinates(ps, k))]]

FAbs(a) == IF Finite(a) /\ a[1] < 0 THEN FNeg(a) ELSE a

\* The test that takes a vertex for one of the front and back faces.
IsFrontOrBack(z, depth) ==
    \/ FLt(FAbs(z), <<1, 1000>>)
    \/ FLt(FAbs(FSub(z, Num(depth))), <<1, 1000>>)

\* u and v of one vertex before the mapping, with the branch of the if that
\* gave them: "cap" for the front and back faces, "side" for the side
\* faces; the u of a side face is left as the arguments of its Math.atan2.
FaceUV(p, bbox, depth) ==
    IF IsFrontOrBack(p[3], depth)
    THEN [face |-> "cap",
          u |-> FDiv(FSub(p[1], bbox.min[1]), FSub(bbox.max[1], bbox.min[1])),
          v |-> FSub(Num(1), FDiv(FSub(p[2], bbox.min[2]),
                                  FSub(bbox.max[2], bbox.min[2])))]
    ELSE [face |-> "side",
          u |-> <<p[2], p[1]>>,
          v |-> FDiv(p[3], Num(depth))]

\* "map u and v to the actual image content"
MappedUV(f, im, b) ==
    [face |-> f.face,
     u |-> IF f.face = "cap"
           THEN FAdd(FDiv(Num(b.minX), Num(im.width)),
                     FDiv(FMul(f.u, Num(b.maxX - b.minX)), Num(im.width)))
           ELSE f.u,
     v |-> FAdd(FDiv(Num(b.minY), Num(im.height)),
                FDiv(FMul(f.v, Num(b.maxY - b.minY)), Num(im.height)))]

UVsIn(ps, bbox, im, b, depth) ==
    [i \in 1..Len(ps) |-> MappedUV(FaceUV(ps[i], bbox, depth), im, b)]

\* setUVs(geometry, img, bounds): the uv attribute it leaves.
setUVs(ps, im, b, depth) ==
    IF Len(ps) = 0 THEN <<>>
    ELSE CHOOSE r \in {UVsIn(ps, bbox, im, b, depth) :
                          bbox \in {BoundingBoxOf(ps)}} : TRUE

LegacyGeometry(sh, ps, im, b, depth) ==
    [shape |-> sh, positions |-> ps, uv |-> setUVs(ps, im, b, depth)]

ExtrudedShape(sh, im, b, depth) ==
    LegacyGeometry(sh, ExtrudeGeometry(sh, depth), im, b, depth)

\* createGeometry(img, outlineData)
createGeometry(im, out, b, sz, depth) ==
    ExtrudedShape(ShapeOf(out, b, sz), im, b, depth)

-----------------------------------------------------------------------------
(* Operations.                                                             *)

\* The image with every pixel transparent.
Blank(im) == Image(im.width, im.height, [p \in 1..Len(im.data) |-> 0])

\* What img.src may hold for the image im: no GIF, or a GIF of at most
\* MaxFrames frames whose first frame is the image itself.
GifsOf(im) ==
    {<<>>} \cup
    (IF im.width * im.height \in 1..MaxGifCells
     THEN UNION {{<<im>> \o rest : rest \in [1..(n - 1) -> {im, Blank(im)}]} :
                 n \in 1..MaxFrames}
     ELSE {})

\* The state the constructor leaves: no mesh yet, loadImage suspended at
\* `await fetch(img.src)`.  Nothing the model holds changes between that
\* await and `await response.arrayBuffer()`, so pc has one value, "await",
\* for both.
Constructed ==
    /\ pc = "await"
    /\ isGif = FALSE
    /\ geometries = <<>>
    /\ mesh = "null"
    /\ scale = <<1, 1, 1>>
    /\ children = <<>>
    /\ imageData = Image(0, 0, <<>>)
    /\ vts = <<>>
    /\ uvs = <<>>
    /\ indices = <<>>
    /\ positions = <<>>
    /\ solidCalls = {}
    /\ data = <<>>
    /\ outline = <<>>
    /\ bounds = [minX |-> 0, minY |-> 0, maxX |-> 0, maxY |-> 0]
    /\ found = FALSE
    /\ traced = FALSE
    /\ shape = <<>>
    /\ uvAttribute = <<>>
    /\ material = "null"
    /\ animationId = "null"
    /\ frameRequested = FALSE
    /\ mixerTime = 0
    /\ displayedFrame = 0
    /\ disposed = FALSE
    /\ currentMesh = "null"
    /\ thrown = "none"

Init ==
    /\ img \in Images \cup ZeroAreaImages
    /\ gif \in GifsOf(img)
    /\ alphaThreshold \in Thresholds
    /\ legacy \in BOOLEAN
    /\ thickness = 1
    /\ size = 1
    /\ customMaterial = "none"
    /\ Constructed

\* getImageData(0, 0, width, height) throws when width or height is 0.
HasArea(im) == im.width > 0 /\ im.height > 0

\* The state createGeometryFromImageData(imageData) leaves behind.
Meshed(id, g) ==
    /\ imageData' = id
    /\ vts' = g.vts
    /\ uvs' = g.uvs
    /\ indices' = g.indices
    /\ positions' = g.positions
    /\ solidCalls' = ScanCalls(id)

\* mesh.scale.set(size, size, size)
MeshScaleDepth(sz) == <<sz, sz, sz>>

\* mesh.scale.set(size, size, 1)
MeshScale(sz) == <<sz, sz, 1>>

\* this.mesh = new THREE.Mesh(...); this.add(this.mesh)
AddMesh(m, sc) ==
    /\ mesh' = m
    /\ scale' = sc
    /\ children' = Append(children, m)

\* if (this.options.customMaterial) this.material = customMaterial, else a
\* new material of the given kind.
MaterialChosen(kind) == IF customMaterial # "none" THEN customMaterial ELSE kind

\* startAnimation(): the first call of `animate`, made at once.  The
\* clock's first getDelta() returns 0, so the mixer stays at time 0 and the
\* frame index is 0, the geometry and texture the mesh was made with; then
\* the first animation frame is requested.
StartAnimation ==
    /\ mixerTime' = 0
    /\ displayedFrame' = 0
    /\ animationId' = "requested"
    /\ frameRequested' = TRUE

\* The test of loadImage's catch block with its branches swapped.
LegacyChosenInverted == ~legacy

\* if (this.options.legacy), in loadImage's catch block
LegacyChosen == legacy

\* loadImage resumed with the buffer, GifReader throwing, not legacy:
\* generateMesh.
GenerateMesh ==
    /\ pc = "await"
    /\ gif = <<>>
    /\ ~LegacyChosen
    /\ HasArea(img)
    /\ \E g \in {createGeometryFromImageData(img)} : Meshed(img, g)
    /\ material' = MaterialChosen("standard")
    /\ AddMesh("grid", MeshScale(size))
    /\ pc' = "done"
    /\ UNCHANGED <<isGif, geometries>>
    /\ UNCHANGED <<inputVars, traceVars, legacyVars>>
    /\ UNCHANGED <<animationVars, disposed, demoVars>>

\* The state traceOutline(img) leaves behind.
Traced(r) ==
    /\ data' = r.data
    /\ outline' = r.outline
    /\ bounds' = r.bounds
    /\ found' = r.found
    /\ traced' = TRUE

\* The state createGeometry(img, outlineData) leaves behind.
Extruded(g) ==
    /\ shape' = g.shape
    /\ positions' = g.positions
    /\ uvAttribute' = g.uv

\* loadImage resumed with the buffer, GifReader throwing, legacy:
\* generateMeshLegacy.
GenerateMeshLegacy ==
    /\ pc = "await"
    /\ gif = <<>>
    /\ LegacyChosen
    /\ HasArea(img)
    /\ \E r \in {traceOutline(img)} :
          /\ Traced(r)
          /\ \E g \in {createGeometry(img, r.outline, r.bounds, size, thickness)} :
                Extruded(g)
    /\ material' = MaterialChosen("standard")
    /\ AddMesh("legacy", <<1, 1, 1>>)
    /\ pc' = "done"
    /\ UNCHANGED <<isGif, geometries>>
    /\ UNCHANGED <<inputVars, gridVars>>
    /\ UNCHANGED <<animationVars, disposed, demoVars>>

\* loadImage resumed with the buffer, GifReader accepting it: loadGifFrames
\* and generateAnimatedMesh with its setupAnimation and startAnimation,
\* whatever options.legacy says.
LoadGifFrames ==
    /\ pc = "await"
    /\ gif # <<>>
    /\ isGif' = TRUE
    /\ \E gs \in {[i \in 1..Len(gif) |-> createGeometryFromImageData(gif[i])]} :
          /\ geometries' = gs
          /\ Meshed(gif[1], gs[1])
    /\ material' = MaterialChosen("basic")
    /\ AddMesh("grid", MeshScale(size))
    /\ StartAnimation
    /\ pc' = "done"
    /\ UNCHANGED <<inputVars, traceVars, legacyVars>>
    /\ UNCHANGED <<disposed, demoVars>>

\* loadImage resumed with the buffer, on an image without area: the
\* getImageData of generateMesh or of traceOutline throws and loadImage's
\* promise is rejected.
LoadFailed ==
    /\ pc = "await"
    /\ gif = <<>>
    /\ ~HasArea(img)
    /\ pc' = "failed"
    /\ UNCHANGED <<isGif, geometries>>
    /\ UNCHANGED <<inputVars, meshVars, gridVars, traceVars, legacyVars>>
    /\ UNCHANGED <<material, animationVars, disposed, demoVars>>

\* The public traceOutline(img), called from outside at any time.  A second
\* call on the same image returns what the first did, so one call is
\* modelled; on an image without area it throws.
TraceOutline ==
    /\ ~traced
    /\ HasArea(img)
    /\ \E r \in {traceOutline(img)} : Traced(r)
    /\ UNCHANGED <<inputVars, loadVars, meshVars, gridVars, legacyVars>>
    /\ UNCHANGED <<material, animationVars, disposed, demoVars>>

Next ==
    \/ GenerateMesh
    \/ GenerateMeshLegacy
    \/ LoadGifFrames
    \/ LoadFailed
    \/ TraceOutline

Spec == Init /\ [][Next]_vars

\* The same operations on the one-pixel images of every alpha value, under
\* every threshold of 0..255, with options.legacy set; GIF input and the
\* Grid path are tried where the alpha is the threshold or next to it.
InitAlpha ==
    /\ img \in {Image(1, 1, <<a>>) : a \in 0..255} \cup ZeroAreaImages
    /\ alphaThreshold \in 0..255
    /\ gif \in IF HasArea(img) /\ img.data[1] = alphaThreshold
              THEN GifsOf(img) ELSE {<<>>}
    /\ legacy \in IF HasArea(img) /\ img.data[1] - alphaThreshold \in (-1)..1
                 THEN BOOLEAN ELSE {TRUE}
    /\ thickness = 1
    /\ size = 1
    /\ customMaterial = "none"
    /\ Constructed

SpecAlpha == InitAlpha /\ [][Next]_vars

\* The same operations on the images of at most MaxOptionCells pixels, under
\* every thickness and size of -1..MaxOption, with the alphaThreshold of
\* src/src/main.ts.
InitOptions ==
    /\ img \in OptionImages \cup ZeroAreaImages
    /\ gif \in GifsOf(img)
    /\ alphaThreshold = 128
    /\ legacy \in BOOLEAN
    /\ thickness \in (-1)..MaxOption
    /\ size \in (-1)..MaxOption
    /\ customMaterial = "none"
    /\ Constructed

SpecOptions == InitOptions /\ [][Next]_vars

-----------------------------------------------------------------------------
(* Animation frames, dispose, and the handlers of the demo.                *)

\* What clock.getDelta() returns between two animation frames, in half
\* frame periods: half a period or a whole one.
Deltas == {1, 2}

\* floor(animationMixer.time * animationSpeed) % gifFrames.length
FrameIndex(t) == (t \div 2) % Len(gif)

\* A requested animation frame: the browser runs `animate`.  The mixer's
\* time advances by the clock's delta; if the material is a
\* MeshStandardMaterial and there is a mesh, the texture and the geometry
\* of the frame index are put in; the next frame is requested.
Animate ==
    /\ frameRequested
    /\ \E delta \in Deltas :
          \E t \in {(mixerTime + delta) % (2 * Len(gif))} :
              /\ mixerTime' = t
              /\ IF material = "standard" /\ mesh # "null"
                 THEN /\ displayedFrame' = FrameIndex(t)
                      /\ Meshed(gif[FrameIndex(t) + 1],
                                geometries[FrameIndex(t) + 1])
                 ELSE UNCHANGED <<displayedFrame, gridVars, positions>>
    /\ animationId' = "requested"
    /\ frameRequested' = TRUE
    /\ UNCHANGED <<inputVars, loadVars, mesh, scale, children>>
    /\ UNCHANGED <<traceVars, legacyVars, material, disposed, demoVars>>

\* stopAnimation(): the frame of this.animationId is cancelled, if there is
\* one.
StopAnimation ==
    /\ animationId' = "null"
    /\ frameRequested' =
          (IF animationId # "null" THEN FALSE ELSE frameRequested)

\* parent.remove(mesh)
Without(cs, m) == SelectSeq(cs, LAMBDA c : c # m)

\* dispose(), called from outside at any time.
Dispose ==
    /\ StopAnimation
    /\ children' = (IF mesh = "null" THEN children ELSE Without(children, mesh))
    /\ mesh' = "null"
    /\ disposed' = TRUE
    /\ UNCHANGED <<inputVars, loadVars, scale, positions, gridVars>>
    /\ UNCHANGED <<traceVars, legacyVars, material, mixerTime, displayedFrame>>
    /\ UNCHANGED demoVars

\* updateMesh(img) of the demo, from the return of `new ExtrudedImage` on:
\* traceOutline(img), scene.add, currentMesh = extrudedImage.  It runs in
\* the handler that constructed the object, hence before anything else
\* happens to it, and with the demo's options: no legacy, no
\* customMaterial.
UpdateMesh ==
    /\ pc = "await"
    /\ ~traced
    /\ ~disposed
    /\ currentMesh = "null"
    /\ ~legacy
    /\ customMaterial = "none"
    /\ HasArea(img)
    /\ \E r \in {traceOutline(img)} : Traced(r)
    /\ currentMesh' = "extrudedImage"
    /\ UNCHANGED <<inputVars, loadVars, meshVars, gridVars, legacyVars>>
    /\ UNCHANGED <<material, animationVars, disposed, thrown>>

\* handleThicknessChange() of the demo, on an input event of the slider:
\* updateMesh(currentMesh.material.map.image).  Reading `map` of a null
\* material is a TypeError.  Otherwise the map is the DataTexture of
\* createTextureFromImageData, whose image is {data, width, height}:
\* updateMesh constructs another ExtrudedImage and its traceOutline ends in
\* the TypeError of drawImage, which takes no such object, before
\* currentMesh is assigned; the object made is dropped.
HandleThicknessChange ==
    /\ currentMesh # "null"
    /\ thrown' = (IF material = "null" THEN "material is null"
                  ELSE "image is not drawable")
    /\ UNCHANGED <<inputVars, loadVars, meshVars, gridVars, traceVars>>
    /\ UNCHANGED <<legacyVars, material, animationVars, disposed, currentMesh>>

NextLifecycle ==
    \/ Next
    \/ Animate
    \/ Dispose
    \/ UpdateMesh
    \/ HandleThicknessChange

\* The images of at most MaxGifCells pixels, every alpha pattern.
LifecycleImages ==
    UNION {UNION {{Image(w, h, a) : a \in [1..(w * h) -> AlphaLevels]} :
                  h \in {k \in 1..MaxGifCells : w * k <= MaxGifCells}} :
           w \in 1..MaxGifCells}

InitLifecycle ==
    /\ img \in LifecycleImages \cup ZeroAreaImages
    /\ gif \in GifsOf(img)
    /\ alphaThreshold = 128
    /\ legacy \in BOOLEAN
    /\ thickness = 1
    /\ size = 1
    /\ customMaterial \in {"none", "basic", "standard"}
    /\ Constructed

\* The object from its construction to its disposal, with the animation
\* frames and the demo's handlers.  The browser runs an animation frame
\* that stays requested.
SpecLifecycle ==
    /\ InitLifecycle
    /\ [][NextLifecycle]_vars
    /\ WF_vars(Animate)

-----------------------------------------------------------------------------
(* What the properties speak of.                                           *)

Cells == (0..(img.width - 1)) \X (0..(img.height - 1))

\* The image with one cell of padding on every side.
PaddedCells == ((-1)..img.width) \X ((-1)..img.height)

AlphaOf(c) == img.data[c[2] * img.width + c[1] + 1]

\* The Grid path's mask: alpha >= alphaThreshold inside the image.
GridSolid(c) == c \in Cells /\ AlphaOf(c) >= alphaThreshold

GridSolidCells == {c \in Cells : GridSolid(c)}

Adjacent4(a, b) ==
    \/ a[1] = b[1] /\ (a[2] - b[2] = 1 \/ b[2] - a[2] = 1)
    \/ a[2] = b[2] /\ (a[1] - b[1] = 1 \/ b[1] - a[1] = 1)

Adjacent8(a, b) ==
    /\ a # b
    /\ a[1] - b[1] \in {-1, 0, 1}
    /\ a[2] - b[2] \in {-1, 0, 1}

\* Quads of the index list, 6 indices each, counted from 0.
QuadCount == Len(indices) \div 6

QuadVertices(k) == {vts[indices[6 * k + j] + 1] : j \in 1..6}

\* A wall quad spans both depths, a cap quad lies at one.
IsWallQuad(k) == {v[3] : v \in QuadVertices(k)} = {-1, 1}

IsCapQuad(k) == Cardinality({v[3] : v \in QuadVertices(k)}) = 1

WallQuads == {k \in 0..(QuadCount - 1) : IsWallQuad(k)}

CapQuads == {k \in 0..(QuadCount - 1) : IsCapQuad(k)}

\* The two cells on either side of a wall quad's footprint.
QuadSides(k) ==
    LET P == {<<v[1], v[2]>> : v \in QuadVertices(k)}
        x0 == CHOOSE x \in {p[1] : p \in P} : \A p \in P : x <= p[1]
        y0 == CHOOSE y \in {p[2] : p \in P} : \A p \in P : y <= p[2]
    IN  IF P = {<<x0, y0>>, <<x0, y0 + 1>>} THEN {<<x0 - 1, y0>>, <<x0, y0>>}
        ELSE IF P = {<<x0, y0>>, <<x0 + 1, y0>>} THEN {<<x0, y0 - 1>>, <<x0, y0>>}
        ELSE {}

Neighbours4(c) ==
    {<<c[1] - 1, c[2]>>, <<c[1] + 1, c[2]>>, <<c[1], c[2] - 1>>, <<c[1], c[2] + 1>>}

\* The pairs of 4-adjacent cells of differing solidity.
BoundaryPairs ==
    UNION {{{a, b} : b \in {n \in Neighbours4(a) : ~GridSolid(n)}} :
           a \in GridSolidCells}

\* sides[k] is a pair of P for every k of W, no two k share one, none is left.
OneToOne(W, sides, P) ==
    /\ \A k \in W : sides[k] \in P
    /\ \A k \in W : \A l \in W : sides[k] = sides[l] => k = l
    /\ \A e \in P : \E k \in W : sides[k] = e

\* The mask is two 2x2 blocks with a free column or row between them.
FarBlocks(S) ==
    /\ Cardinality(S) = 8
    /\ S \subseteq Cells
    /\ \E a \in S : \E b \in S :
          /\ S = Rect(a[1], a[2], 2, 2) \cup Rect(b[1], b[2], 2, 2)
          /\ \/ b[1] - a[1] >= 3
             \/ b[2] - a[2] >= 3

-----------------------------------------------------------------------------
(* Grid mesher.                                                            *)

\* C1: the index list of the Grid mesher has a length that is a multiple of
\* 3 and every index is >= 0 and < the number of emitted vertices, which is
\* 8 cap vertices plus 4 per wall quad.
C1_IndicesInRange ==
    mesh = "grid" =>
        /\ Len(indices) % 3 = 0
        /\ \A i \in 1..Len(indices) : indices[i] >= 0 /\ indices[i] < Len(vts)
        /\ Len(vts) = 8 + 4 * Cardinality(WallQuads)
        /\ Len(uvs) = Len(vts)

C1_Witness ==
    /\ mesh = "grid"
    /\ Cardinality(WallQuads) >= 4
    /\ \E i \in 1..Len(indices) : indices[i] = Len(vts) - 1

\* C2: a fully solid w x h image gives exactly 2(w + h) wall quads and 2 cap
\* quads (16 wall quads for 4x4 at alphaThreshold 128); a fully transparent
\* image gives no wall quad and still the 2 cap quads.
C2_SolidRectangleQuads ==
    mesh = "grid" =>
        /\ GridSolidCells = Cells =>
              /\ Cardinality(WallQuads) = 2 * (img.width + img.height)
              /\ Cardinality(CapQuads) = 2
              /\ QuadCount = 2 * (img.width + img.height) + 2
        /\ GridSolidCells = {} =>
              /\ Cardinality(WallQuads) = 0
              /\ Cardinality(CapQuads) = 2
              /\ QuadCount = 2
        /\ (/\ img.width = 4
            /\ img.height = 4
            /\ alphaThreshold = 128
            /\ \A c \in Cells : AlphaOf(c) = 255) => Cardinality(WallQuads) = 16

C2_Witness ==
    /\ mesh = "grid"
    /\ img.width = 4
    /\ img.height = 4
    /\ alphaThreshold = 128
    /\ GridSolidCells = Cells
    /\ Cardinality(WallQuads) = 16
    /\ Cardinality(CapQuads) = 2

\* C3: the wall quads are, one to one, the pairs of 4-adjacent cells whose
\* solidity differs (cells outside the image are not solid): every wall quad
\* lies between one solid and one not-solid cell, no pair gets two quads and
\* no pair is left out; two 2x2 blocks apart from each other give 16.
C3_OneQuadPerBoundaryPair ==
    mesh = "grid" =>
        /\ \A W \in {WallQuads} : \A P \in {BoundaryPairs} :
              \A sides \in {[k \in W |-> QuadSides(k)]} : OneToOne(W, sides, P)
        /\ QuadCount = Cardinality(WallQuads) + Cardinality(CapQuads)
        /\ FarBlocks(GridSolidCells) => Cardinality(WallQuads) = 16

C3_Witness ==
    /\ mesh = "grid"
    /\ FarBlocks(GridSolidCells)
    /\ Cardinality(WallQuads) = 16
    /\ Cardinality(BoundaryPairs) = 16

\* C4: isSolid is total: outside [0, width) x [0, height) it returns false
\* without reading the buffer; inside it reads the pixel's alpha byte, which
\* is in range, and returns alpha >= alphaThreshold; the buffer is left as
\* it was.
C4_IsSolidTotal ==
    mesh = "grid" =>
        /\ \A c \in solidCalls :
              IF <<c.x, c.y>> \in Cells
              THEN /\ c.read = 4 * (c.y * img.width + c.x) + 3
                   /\ c.read >= 0
                   /\ c.read < 4 * img.width * img.height
                   /\ c.ret = (AlphaOf(<<c.x, c.y>>) >= alphaThreshold)
              ELSE c.read = NoRead /\ c.ret = FALSE
        /\ imageData = img

C4_Witness ==
    /\ mesh = "grid"
    /\ \E c \in solidCalls : c.x < 0 /\ ~c.ret
    /\ \E c \in solidCalls : c.y < 0 /\ ~c.ret
    /\ \E c \in solidCalls : c.x = img.width /\ ~c.ret
    /\ \E c \in solidCalls : c.y = img.height /\ ~c.ret
    /\ \E c \in solidCalls : <<c.x, c.y>> \in Cells /\ c.ret
    /\ \E c \in solidCalls : <<c.x, c.y>> \in Cells /\ ~c.ret

-----------------------------------------------------------------------------
(* Contour Tracer.                                                         *)

\* The mask the Contour Tracer works on: alpha >= alphaThreshold, and
\* nothing at all under the threshold 255.
TracerSolid(c) ==
    c \in Cells /\ AlphaOf(c) >= alphaThreshold /\ alphaThreshold < 255

TracerSolidCells == {c \in Cells : TracerSolid(c)}

RowMajor(c) == c[2] * img.width + c[1]

\* The first cell of S in row-major order.
FirstCell(S) == CHOOSE c \in S : \A c2 \in S : RowMajor(c) <= RowMajor(c2)

\* R with the cells of S that are 8-adjacent to a cell of R.
Grow8(S, R) == R \cup {c \in S : \E r \in R : Adjacent8(c, r)}

\* The cells of S joined to those of R by steps between 8-adjacent cells of S.
RECURSIVE Reach8(_, _)
Reach8(S, R) ==
    CHOOSE C \in {IF N = R THEN R ELSE Reach8(S, N) : N \in {Grow8(S, R)}} : TRUE

\* The 8-connected component of the cell c in the tracer's mask.
Component8(c) ==
    CHOOSE C \in {Reach8(S, {c}) : S \in {TracerSolidCells}} : TRUE

OutlinePoints == {outline[i] : i \in 1..Len(outline)}

\* S is one solid rectangle.
IsRectangle(S) ==
    /\ S # {}
    /\ \E a \in S : \E b \in S :
          S = Rect(a[1], a[2], b[1] - a[1] + 1, b[2] - a[2] + 1)

\* The true min/max coordinates of the cells of S.
BoundingBox(S) ==
    [minX |-> CHOOSE x \in {c[1] : c \in S} : \A c \in S : x <= c[1],
     minY |-> CHOOSE y \in {c[2] : c \in S} : \A c \in S : y <= c[2],
     maxX |-> CHOOSE x \in {c[1] : c \in S} : \A c \in S : x >= c[1],
     maxY |-> CHOOSE y \in {c[2] : c \in S} : \A c \in S : y >= c[2]]

\* The 4x4 image, fully opaque, under the threshold 128.
Opaque4x4 ==
    /\ img.width = 4
    /\ img.height = 4
    /\ alphaThreshold = 128
    /\ \A c \in Cells : AlphaOf(c) = 255

\* C5, as stated: in traceOutline a pixel is solid iff its source alpha is
\* strictly greater than alphaThreshold, so that a pixel whose alpha equals
\* the threshold is not solid.  On a one-pixel image the pixel is solid
\* exactly when it is traced.
C5_StrictlyGreater ==
    (traced /\ img.width = 1 /\ img.height = 1) =>
        (outline # <<>> <=> AlphaOf(<<0, 0>>) > alphaThreshold)

\* C5, amended: in traceOutline a pixel is solid iff its source alpha is
\* >= alphaThreshold and alphaThreshold < 255: the threshold pass turns
\* every alpha >= threshold into 255 before the > test, so a pixel whose
\* alpha equals the threshold is solid, as in the Grid path, unless the
\* threshold is 255.
C5_AtLeastThreshold ==
    (traced /\ img.width = 1 /\ img.height = 1) =>
        /\ data = <<IF AlphaOf(<<0, 0>>) >= alphaThreshold THEN 255 ELSE 0>>
        /\ outline # <<>> <=>
              (AlphaOf(<<0, 0>>) >= alphaThreshold /\ alphaThreshold < 255)

C5_Witness ==
    /\ traced
    /\ img.width = 1
    /\ img.height = 1
    /\ AlphaOf(<<0, 0>>) = 128
    /\ alphaThreshold = 128
    /\ outline = << <<0, 0>> >>

C7_FirstComponentOnly ==
    (traced /\ outline # <<>>) =>
        /\ outline[1] = FirstCell(TracerSolidCells)
        /\ OutlinePoints \subseteq Component8(outline[1])

C7_Witness ==
    /\ traced
    /\ outline # <<>>
    /\ TracerSolidCells \ Component8(outline[1]) # {}
    /\ Len(outline) >= 3

\* C8: tracing a solid rectangle ends by reaching the start pixel (the
\* do-while is left through its condition, `found` being true) and the
\* bounds are the true min/max coordinates of the solid pixels.
C8_RectangleClosesWithTrueBounds ==
    (traced /\ IsRectangle(TracerSolidCells)) =>
        /\ found
        /\ bounds = BoundingBox(TracerSolidCells)

\* C9, as stated: on the fully opaque 4x4 image with alphaThreshold 128 the
\* outline is a closed loop of exactly 16 points with bounds {0, 0, 3, 3}.
C9_SixteenPointLoop ==
    (traced /\ Opaque4x4) =>
        /\ Len(outline) = 16
        /\ bounds = [minX |-> 0, minY |-> 0, maxX |-> 3, maxY |-> 3]

\* C9, amended: on the fully opaque 4x4 image with alphaThreshold 128 the
\* outline has exactly 12 points, the 12 border pixels clockwise from
\* (0, 0), each once and each 8-adjacent to the one before; the last one,
\* (0, 1), is adjacent to the first; the bounds are {0, 0, 3, 3}.
C9_TwelveBorderPixels ==
    (traced /\ Opaque4x4) =>
        /\ outline = << <<0, 0>>, <<1, 0>>, <<2, 0>>, <<3, 0>>, <<3, 1>>, <<3, 2>>,
                        <<3, 3>>, <<2, 3>>, <<1, 3>>, <<0, 3>>, <<0, 2>>, <<0, 1>> >>
        /\ Len(outline) = 12
        /\ Adjacent8(outline[Len(outline)], outline[1])
        /\ bounds = [minX |-> 0, minY |-> 0, maxX |-> 3, maxY |-> 3]

C9_Witness ==
    /\ traced
    /\ Opaque4x4
    /\ Len(outline) = 12

\* C10, as stated: on a mask of two 2x2 opaque blocks apart from each other
\* the outline is the contour of one block and has exactly 8 points.
C10_EightPoints ==
    (traced /\ FarBlocks(TracerSolidCells)) =>
        /\ Len(outline) = 8
        /\ \E a \in TracerSolidCells : OutlinePoints \subseteq Rect(a[1], a[2], 2, 2)

\* C10, amended: on a mask of two 2x2 opaque blocks apart from each other
\* the outline is the contour of one block only, the block of the first
\* solid pixel in row-major order, and has exactly 4 points: the 4 pixels of
\* that block.
C10_FourPointsOfFirstBlock ==
    (traced /\ FarBlocks(TracerSolidCells)) =>
        /\ Len(outline) = 4
        /\ LET f == FirstCell(TracerSolidCells)
           IN  OutlinePoints = Rect(f[1], f[2], 2, 2)

C10_Witness ==
    /\ traced
    /\ FarBlocks(TracerSolidCells)
    /\ Len(outline) = 4
    /\ Cardinality(TracerSolidCells) = 8

-----------------------------------------------------------------------------
(* Loading, options and placement.                                         *)

\* The input is invalid: an image without area, or a thickness or size that
\* is not positive.
InvalidInput == ~HasArea(img) \/ thickness <= 0 \/ size <= 0

\* C11: invalid input (an image of width 0 or height 0, a thickness or a
\* size that is not positive) never gets a mesh: this.mesh stays null and
\* nothing is added to the object.
C11_InvalidInputGetsNoMesh ==
    InvalidInput => mesh = "null" /\ children = <<>>

\* C12: mesh generation is synchronous: once the constructor has returned
\* (every state of the model), a valid image has its mesh, and no other
\* handler has run before the mesh was there (traceOutline, called from
\* outside, finds the mesh in place).
C12_MeshReadyWhenConstructed ==
    ~InvalidInput =>
        /\ mesh # "null"
        /\ pc = "done"
        /\ traced => children # <<>>

\* How far the geometry's positions reach along coordinate k.
SpanOf(k) ==
    FSub(FMaxOf(Coordinates(positions, k)), FMinOf(Coordinates(positions, k)))

\* C13: in the geometry of the Grid path (centred and scaled by s, before
\* the mesh is scaled by size) the longer side of the image spans exactly 1
\* and the shorter side at most 1.
C13_LongerSideSpansOne ==
    mesh = "grid" =>
        IF img.width >= img.height
        THEN FEq(SpanOf(1), Num(1)) /\ FLe(SpanOf(2), Num(1))
        ELSE FEq(SpanOf(2), Num(1)) /\ FLe(SpanOf(1), Num(1))

\* The positions of the 8 cap vertices and of the wall quads' vertices.
CapPositions == {positions[i] : i \in 1..8}

WallPositions == {positions[i] : i \in 9..Len(positions)}

\* The bounding box of the points P has its centre at 0 along coordinate k.
CentredAtOrigin(P, k) ==
    FEq(FAdd(FMinOf({p[k] : p \in P}), FMaxOf({p[k] : p \in P})), Num(0))

\* The solid pixels' bounding box has the image's centre along coordinate k.
SilhouetteCentred(k) ==
    LET lo == CHOOSE a \in {c[k] : c \in GridSolidCells} :
                  \A c \in GridSolidCells : a <= c[k]
        hi == CHOOSE a \in {c[k] : c \in GridSolidCells} :
                  \A c \in GridSolidCells : a >= c[k]
    IN  lo + hi + 1 = (IF k = 1 THEN img.width ELSE img.height)

\* C14, as stated: with at least one solid pixel, the origin of the Grid
\* geometry is the centre of the bounding box of the silhouette (of the
\* solid pixels, which is that of the wall quads).
C14_OriginAtSilhouetteCentre ==
    (mesh = "grid" /\ GridSolidCells # {}) =>
        CentredAtOrigin(WallPositions, 1) /\ CentredAtOrigin(WallPositions, 2)

\* C14, amended: the origin of the Grid geometry is the centre of the whole
\* image rectangle, which the cap quads cover, for every mask; it is the
\* centre of the silhouette's bounding box exactly when that box is centred
\* in the image.
C14_OriginAtImageCentre ==
    mesh = "grid" =>
        /\ \A k \in 1..3 : CentredAtOrigin(CapPositions, k)
        /\ \A k \in 1..3 : CentredAtOrigin(CapPositions \cup WallPositions, k)
        /\ GridSolidCells # {} =>
              \A k \in 1..2 :
                  CentredAtOrigin(WallPositions, k) <=> SilhouetteCentred(k)

C14_Witness ==
    /\ mesh = "grid"
    /\ GridSolidCells # {}
    /\ ~SilhouetteCentred(1)
    /\ ~CentredAtOrigin(WallPositions, 1)
    /\ CentredAtOrigin(CapPositions, 1)

\* The positions ps as the mesh shows them, under the mesh's scale sc.
World(ps, sc) ==
    [i \in 1..Len(ps) |->
        <<FMul(ps[i][1], Num(sc[1])), FMul(ps[i][2], Num(sc[2])),
          FMul(ps[i][3], Num(sc[3]))>>]

\* What the mesh of this state shows, and what the same input shows when
\* options.size is sz instead.
Output == World(positions, scale)

OutputWithSize(sz) ==
    IF mesh = "grid" THEN World(positions, MeshScale(sz))
    ELSE World(ExtrudeGeometry(ShapeOf(outline, bounds, sz), thickness), scale)

\* The same number; NaN stands for NaN.
Same(a, b) == FEq(a, b) \/ (~Finite(a) /\ ~Finite(b))

\* C15: with the size doubled and the thickness kept, every position of the
\* mesh has its x and its y multiplied by exactly 2 and its depth unchanged,
\* and the mesh is as deep as the thickness (a positive thickness, a mesh
\* with vertices), in the Grid path and in the Contour path.
C15_DoubleSizeDoublesXY ==
    mesh # "null" =>
        \A o \in {Output} : \A o2 \in {OutputWithSize(2 * size)} :
            /\ Len(o2) = Len(o)
            /\ \A i \in 1..Len(o) :
                  /\ Same(o2[i][1], FMul(Num(2), o[i][1]))
                  /\ Same(o2[i][2], FMul(Num(2), o[i][2]))
                  /\ Same(o2[i][3], o[i][3])
            /\ (thickness > 0 /\ Len(o) > 0) =>
                  FEq(FSub(FMaxOf(Coordinates(o, 3)), FMinOf(Coordinates(o, 3))),
                      Num(thickness))

C15_Witness ==
    /\ mesh = "legacy"
    /\ size = 1
    /\ thickness = 2
    /\ Len(Output) >= 4
    /\ \A i \in 1..Len(Output) :
          /\ Finite(Output[i][1]) /\ Output[i][1][1] # 0
          /\ Finite(Output[i][2]) /\ Output[i][2][1] # 0

\* The uv pair t is the corner (u, v) of the unit square.
IsCorner(t, u, v) == FEq(t[1], Num(u)) /\ FEq(t[2], Num(v))

\* The 8 cap vertices of the Grid path carry the corners of the unit square.
GridCapUVsAreCorners ==
    \A k \in {0, 4} :
        /\ IsCorner(uvs[k + 1], 0, 0)
        /\ IsCorner(uvs[k + 2], 1, 0)
        /\ IsCorner(uvs[k + 3], 1, 1)
        /\ IsCorner(uvs[k + 4], 0, 1)

InUnitInterval(a) == FLe(Num(0), a) /\ FLe(a, Num(1))

\* The vertices of the legacy geometry that belong to its two lids (the
\* caps), and those that belong to its side wall.
LidVertices == 1..(IF Len(shape) < 3 THEN 0 ELSE 2 * Len(shape))

SideWallVertices == (1..Len(positions)) \ LidVertices

\* Every cap vertex of the Contour path has its mapped uv in the unit square.
ContourCapUVsInUnitSquare ==
    \A i \in LidVertices :
        InUnitInterval(uvAttribute[i].u) /\ InUnitInterval(uvAttribute[i].v)

\* C16: every cap vertex has its uv in [0,1] x [0,1]: the 8 cap vertices of
\* the Grid path carry exactly the corners (0,0), (1,0), (1,1), (0,1), and
\* in the Contour path the uv mapped by setUVs stays within [0,1].
C16_CapUVsInUnitSquare ==
    /\ mesh = "grid" => GridCapUVsAreCorners
    /\ mesh = "legacy" => ContourCapUVsInUnitSquare

\* The 8 corners of the cube of side 1 centred at the origin, in halves.
CubeCorners == {-1, 1} \X {-1, 1} \X {-1, 1}

\* The position p is the corner c.
AtCorner(p, c) == \A k \in 1..3 : FEq(p[k], <<c[k], 2>>)

\* C17: a fully opaque 1x1 image with thickness 1 and size 1 gives the
\* topology of a unit cube in the Grid path: 6 quads (2 caps and 4 walls),
\* 12 triangles, and vertices at exactly 8 distinct positions, the corners
\* of the cube.
C17_OnePixelIsACube ==
    (/\ mesh = "grid"
     /\ img.width = 1
     /\ img.height = 1
     /\ img.data[1] = 255
     /\ thickness = 1
     /\ size = 1) =>
        /\ QuadCount = 6
        /\ Cardinality(CapQuads) = 2
        /\ Cardinality(WallQuads) = 4
        /\ Len(indices) = 3 * 12
        /\ Cardinality({vts[i] : i \in 1..Len(vts)}) = 8
        /\ \A i \in 1..Len(indices) :
              \E c \in CubeCorners : AtCorner(Output[indices[i] + 1], c)
        /\ \A c \in CubeCorners :
              \E i \in 1..Len(indices) : AtCorner(Output[indices[i] + 1], c)

C17_Witness ==
    /\ mesh = "grid"
    /\ img.width = 1
    /\ img.height = 1
    /\ img.data[1] = 255
    /\ alphaThreshold = 128
    /\ thickness = 1
    /\ size = 1
    /\ QuadCount = 6
    /\ Len(positions) = 24

-----------------------------------------------------------------------------
(* Thresholding and the choice of the path.                                *)

\* Every alpha of the image is 0 or 255.
Binarised == \A p \in 1..Len(img.data) : img.data[p] \in {0, 255}

\* C18, as stated: on an image whose alphas are all 0 or 255 the threshold
\* pass of traceOutline changes no pixel, whatever the threshold.
C18_BinarisedImageUnchanged ==
    (traced /\ Binarised) => data = img.data

\* C18, amended: on an image whose alphas are all 0 or 255 the threshold
\* pass changes no pixel for every threshold of 1..255; at threshold 0 it
\* makes every pixel 255; and for every threshold, applying it again to its
\* own result changes nothing.
C18_UnchangedAboveZero ==
    traced =>
        /\ (Binarised /\ alphaThreshold >= 1) => data = img.data
        /\ alphaThreshold = 0 => \A p \in 1..Len(data) : data[p] = 255
        /\ ApplyThreshold(data) = data

C18_Witness ==
    /\ traced
    /\ Binarised
    /\ alphaThreshold = 255
    /\ img.data = <<255>>
    /\ data = <<255>>

\* The Contour path has run: traceOutline and createGeometry made the mesh.
ContourPathUsed == mesh = "legacy" /\ traced /\ vts = <<>> /\ geometries = <<>>

\* The Grid path has run: createGeometryFromImageData made the mesh.
GridPathUsed == mesh = "grid" /\ Len(vts) >= 8 /\ shape = <<>>

\* C19, as stated: the path is chosen by options.legacy alone, for every
\* input, GIF input included: legacy gives the Contour path, anything else
\* the Grid path.
C19_LegacyFlagAloneSelects ==
    pc = "done" => IF legacy THEN ContourPathUsed ELSE GridPathUsed

\* C19, amended: for input that is not a GIF the path is chosen by
\* options.legacy alone; GIF input always takes the Grid path, once per
\* frame, whatever options.legacy says.
C19_LegacyFlagSelectsUnlessGif ==
    pc = "done" =>
        IF gif # <<>>
        THEN GridPathUsed /\ isGif /\ Len(geometries) = Len(gif)
        ELSE /\ ~isGif
             /\ IF legacy THEN ContourPathUsed ELSE GridPathUsed

C19_Witness ==
    /\ pc = "done"
    /\ gif # <<>>
    /\ legacy
    /\ GridPathUsed
    /\ Len(geometries) = 2

-----------------------------------------------------------------------------
(* Orientation of the Grid mesher's faces.                                 *)

\* The vertex of vts with its depth doubled, v[3] * thickness: the doubling
\* changes the length of a normal, not the signs of its coordinates.
Doubled(v) == <<v[1], v[2], v[3] * thickness>>

\* The cross product of the edges of quad k's first triangle,
\* (v1 - v0) x (v2 - v0).
QuadNormal(k) ==
    LET v0 == Doubled(vts[indices[6 * k + 1] + 1])
        v1 == Doubled(vts[indices[6 * k + 2] + 1])
        v2 == Doubled(vts[indices[6 * k + 3] + 1])
        a == <<v1[1] - v0[1], v1[2] - v0[2], v1[3] - v0[3]>>
        b == <<v2[1] - v0[1], v2[2] - v0[2], v2[3] - v0[3]>>
    IN  <<a[2] * b[3] - a[3] * b[2],
          a[3] * b[1] - a[1] * b[3],
          a[1] * b[2] - a[2] * b[1]>>

\* n points the way from cell s to cell t, within the image plane.
PointsFromTo(n, s, t) ==
    /\ n[3] = 0
    /\ n[1] * (t[1] - s[1]) + n[2] * (t[2] - s[2]) > 0
    /\ n[1] * (t[2] - s[2]) - n[2] * (t[1] - s[1]) = 0

\* C20: every wall quad of the Grid mesher is wound so that its normal
\* points from the solid cell to the cell that is not solid; the cap at
\* +thickness/2 has its normal along +z and the cap at -thickness/2 along
\* -z.
C20_FacesPointOutward ==
    mesh = "grid" =>
        /\ \A k \in WallQuads :
              \E s \in QuadSides(k) : \E t \in QuadSides(k) :
                  /\ GridSolid(s)
                  /\ ~GridSolid(t)
                  /\ PointsFromTo(QuadNormal(k), s, t)
        /\ \A k \in CapQuads :
              \A n \in {QuadNormal(k)} :
                  /\ n[1] = 0
                  /\ n[2] = 0
                  /\ \A v \in QuadVertices(k) : n[3] * v[3] > 0

C20_Witness ==
    /\ mesh = "grid"
    /\ Cardinality(CapQuads) = 2
    /\ \E k \in WallQuads : QuadNormal(k)[1] > 0
    /\ \E k \in WallQuads : QuadNormal(k)[1] < 0
    /\ \E k \in WallQuads : QuadNormal(k)[2] > 0
    /\ \E k \in WallQuads : QuadNormal(k)[2] < 0
    /\ Cardinality(WallQuads) > 2 * (img.width + img.height)

-----------------------------------------------------------------------------
(* Texture coordinates of the walls.                                       *)

\* C21: in the Contour path every side-wall vertex of the extruded geometry
\* has its uv from the cylindrical projection (the side branch of setUVs:
\* u from atan2(y, x), v = z / thickness), and only the cap vertices have
\* the planar bounding-box projection.
C21_SideWallsCylindrical ==
    mesh = "legacy" =>
        /\ \A i \in SideWallVertices : uvAttribute[i].face = "side"
        /\ \A i \in 1..Len(uvAttribute) :
              uvAttribute[i].face = "cap" => i \in LidVertices

\* The uv coordinates the vertices of quad k carry, and the endpoints
\* (x1, y1), (x2, y2) of its footprint.
QuadUVs(k) == {uvs[indices[6 * k + j] + 1] : j \in 1..6}

QuadFootprint(k) == {<<v[1], v[2]>> : v \in QuadVertices(k)}

\* The uv t is the point (x / width, y / height), x and y given in halves.
IsPixelPoint(t, x, y) ==
    /\ FEq(t[1], FDiv(<<x, 2>>, Num(img.width)))
    /\ FEq(t[2], FDiv(<<y, 2>>, Num(img.height)))

\* C22, as stated: in the Grid path the four vertices of a wall quad carry
\* one identical uv, and that uv is one of the two endpoints (x1, y1),
\* (x2, y2) of the quad's footprint scaled by (1 / width, 1 / height).
C22_WallUVIsFootprintEndpoint ==
    mesh = "grid" =>
        \A k \in WallQuads :
            /\ Cardinality(QuadUVs(k)) = 1
            /\ \E p \in QuadFootprint(k) :
                  \A t \in QuadUVs(k) : IsPixelPoint(t, 2 * p[1], 2 * p[2])

\* C22, amended: in the Grid path the four vertices of a wall quad carry
\* one identical uv, and that uv is never an endpoint of the quad's
\* footprint: scaled by (1 / width, 1 / height), it lies half a pixel from
\* each endpoint in u and half a pixel in v, which makes it the centre of
\* one of the two pixels the edge separates.
C22_WallUVHalfPixelOffFootprint ==
    mesh = "grid" =>
        \A k \in WallQuads :
            \A ts \in {QuadUVs(k)} : \A ps \in {QuadFootprint(k)} :
                /\ Cardinality(ts) = 1
                /\ Cardinality(ps) = 2
                /\ \A t \in ts :
                      /\ \A p \in ps :
                            \E dx \in {-1, 1} : \E dy \in {-1, 1} :
                                IsPixelPoint(t, 2 * p[1] + dx, 2 * p[2] + dy)
                      /\ \E c \in QuadSides(k) :
                            IsPixelPoint(t, 2 * c[1] + 1, 2 * c[2] + 1)

C22_Witness ==
    /\ mesh = "grid"
    /\ img.width = 3
    /\ img.height = 2
    /\ Cardinality(WallQuads) = 10
    /\ \E k \in WallQuads :
          /\ QuadFootprint(k) = {<<3, 1>>, <<3, 2>>}
          /\ \A t \in QuadUVs(k) : IsPixelPoint(t, 5, 3)

\* C26: the uv of every wall quad of the Grid path is the centre
\* ((cx + 0.5) / width, (cy + 0.5) / height) of the solid cell (cx, cy)
\* next to the quad's edge, whichever of the four ways the edge faces;
\* hence it lies strictly inside (0,1) x (0,1) and the pixel it samples is
\* a solid pixel of the image.
C26_WallUVIsSolidCellCentre ==
    mesh = "grid" =>
        \A k \in WallQuads :
            \E c \in QuadSides(k) :
                /\ c \in Cells
                /\ AlphaOf(c) >= alphaThreshold
                /\ \A t \in QuadUVs(k) :
                      /\ IsPixelPoint(t, 2 * c[1] + 1, 2 * c[2] + 1)
                      /\ FLt(Num(0), t[1]) /\ FLt(t[1], Num(1))
                      /\ FLt(Num(0), t[2]) /\ FLt(t[2], Num(1))
                      /\ FLe(Num(c[1]), FMul(t[1], Num(img.width)))
                      /\ FLt(FMul(t[1], Num(img.width)), Num(c[1] + 1))
                      /\ FLe(Num(c[2]), FMul(t[2], Num(img.height)))
                      /\ FLt(FMul(t[2], Num(img.height)), Num(c[2] + 1))

C26_Witness ==
    /\ mesh = "grid"
    /\ img.width = 3
    /\ img.height = 3
    /\ GridSolidCells = Cells \ {<<1, 1>>}
    /\ \A n \in {<<1, 0>>, <<-1, 0>>, <<0, 1>>, <<0, -1>>} :
          \E k \in WallQuads :
              /\ QuadNormal(k)[1] * n[1] + QuadNormal(k)[2] * n[2] > 0
              /\ <<1, 1>> \in QuadSides(k)

-----------------------------------------------------------------------------
(* The contour walk, step by step.                                         *)

\* An edge pixel: solid for the tracer, and on the border of the image or
\* next to a pixel (left, right, above, below) that is not solid.
EdgePixel(c) ==
    /\ TracerSolid(c)
    /\ \/ c[1] \in {0, img.width - 1}
       \/ c[2] \in {0, img.height - 1}
       \/ \E n \in Neighbours4(c) : ~TracerSolid(n)

EdgePixels == {c \in Cells : EdgePixel(c)}

\* The 8 directions clockwise from "up" (y grows downwards), counted from 0.
Clockwise ==
    << <<0, -1>>, <<1, -1>>, <<1, 0>>, <<1, 1>>,
       <<0, 1>>, <<-1, 1>>, <<-1, 0>>, <<-1, -1>> >>

\* The direction of the move that reached outline[i]; "up" for the start.
ArrivalDirection(i) ==
    IF i = 1 THEN 0
    ELSE CHOOSE k \in 0..7 :
             /\ outline[i][1] - outline[i - 1][1] = Clockwise[k + 1][1]
             /\ outline[i][2] - outline[i - 1][2] = Clockwise[k + 1][2]

\* The neighbour of outline[i] in direction k.
NeighbourAt(i, k) ==
    <<outline[i][1] + Clockwise[(k % 8) + 1][1],
      outline[i][2] + Clockwise[(k % 8) + 1][2]>>

\* The neighbour can be moved to from outline[i]: an edge pixel that is
\* not among outline[1..i].
Open(i, c) == EdgePixel(c) /\ \A j \in 1..i : outline[j] # c

\* The first neighbour of outline[i] that can be moved to, the 8 directions
\* taken clockwise from direction `first`; <<-1, -1>> when there is none.
FirstOpenFrom(i, first) ==
    IF \E j \in 0..7 : Open(i, NeighbourAt(i, first + j))
    THEN NeighbourAt(i, first + CHOOSE j \in 0..7 :
                                   /\ Open(i, NeighbourAt(i, first + j))
                                   /\ \A l \in 0..(j - 1) :
                                         ~Open(i, NeighbourAt(i, first + l)))
    ELSE <<-1, -1>>

\* Every step of the walk took the first open neighbour, the search begun
\* `after` directions after the direction of arrival, and the walk ended
\* where no neighbour was open.
WalkTookFirstOpen(after) ==
    \A i \in 1..Len(outline) :
        \A c \in {FirstOpenFrom(i, ArrivalDirection(i)
                                     + (IF i = 1 THEN 0 ELSE after))} :
            IF i < Len(outline) THEN outline[i + 1] = c ELSE c = <<-1, -1>>

\* The bounds are the least and greatest coordinates of the outline.
BoundsOfOutline == outline # <<>> => bounds = BoundingBox(OutlinePoints)

\* C23, as stated: at every step of the contour walk the 8 neighbours are
\* examined clockwise starting from the direction just after the direction
\* of arrival, the walk moves to the first one that is an edge pixel and
\* not yet visited, and the bounding box follows the outline.
C23_SearchStartsAfterArrival ==
    traced => WalkTookFirstOpen(1) /\ BoundsOfOutline

\* C23, amended: at every step of the contour walk the 8 neighbours are
\* examined clockwise starting from the direction of arrival itself (from
\* "up" at the start pixel), the walk moves to the first one that is an
\* edge pixel and not yet visited, and the bounding box follows the
\* outline.
C23_SearchStartsAtArrival ==
    traced => WalkTookFirstOpen(0) /\ BoundsOfOutline

C23_Witness ==
    /\ traced
    /\ img.width = 3
    /\ img.height = 2
    /\ TracerSolidCells = Cells
    /\ outline = << <<0, 0>>, <<1, 0>>, <<2, 0>>, <<2, 1>>, <<1, 1>>, <<0, 1>> >>
    /\ FirstOpenFrom(2, 3) = <<2, 1>>

\* C25: the contour walk ends after at most as many steps as the image has
\* edge pixels; every step moves to an edge pixel next to (8-adjacent to)
\* the current one, and no coordinate is in the outline twice; the walk
\* has either closed on its start or no edge pixel next to its last point
\* is left unvisited.
C25_WalkEndsWithoutRepeats ==
    traced =>
        /\ Len(outline) <= Cardinality(EdgePixels)
        /\ Cardinality(OutlinePoints) = Len(outline)
        /\ OutlinePoints \subseteq EdgePixels
        /\ \A i \in 1..(Len(outline) - 1) : Adjacent8(outline[i], outline[i + 1])
        /\ outline # <<>> =>
              \/ found
              \/ \A c \in EdgePixels \ OutlinePoints :
                    ~Adjacent8(c, outline[Len(outline)])

C25_Witness ==
    /\ traced
    /\ Len(outline) >= 3
    /\ Len(outline) < Cardinality(EdgePixels)
    /\ \E c \in EdgePixels \ OutlinePoints :
          \E i \in 1..(Len(outline) - 1) : Adjacent8(c, outline[i])

-----------------------------------------------------------------------------
(* The two masks, and the extents the Contour path divides by.             *)

\* The pixels the Contour Tracer treats as solid: those whose byte in the
\* thresholded buffer passes isEdge's test, > alphaThreshold.
TracedSolidCells == {c \in Cells : data[RowMajor(c) + 1] > alphaThreshold}

\* The pixels for which the isSolid calls of the edge scan returned true.
MeshedSolidCells ==
    {c \in Cells : \E s \in solidCalls : s.x = c[1] /\ s.y = c[2] /\ s.ret}

\* C27: for every alphaThreshold of 0..254 the pixels the Contour Tracer
\* treats as solid are exactly those the Grid mesher treats as solid
\* (alpha >= alphaThreshold); at 255 the Contour Tracer finds no solid
\* pixel at all, while the Grid mesher still takes the pixels of alpha 255.
C27_MasksAgreeBelow255 ==
    /\ traced =>
          TracedSolidCells =
              (IF alphaThreshold <= 254
               THEN {c \in Cells : isSolid(img, c[1], c[2])} ELSE {})
    /\ (traced /\ mesh = "grid" /\ imageData = img) =>
          IF alphaThreshold <= 254
          THEN TracedSolidCells = MeshedSolidCells
          ELSE /\ TracedSolidCells = {}
               /\ MeshedSolidCells = {c \in Cells : AlphaOf(c) = 255}

C27_Witness ==
    /\ traced
    /\ mesh = "grid"
    /\ alphaThreshold = 255
    /\ img.data = <<255>>
    /\ MeshedSolidCells = {<<0, 0>>}
    /\ TracedSolidCells = {}

\* The number a lies in [-size / 2, size / 2].
WithinHalfSize(a) ==
    FLe(FNeg(FDiv(Num(size), Num(2))), a) /\ FLe(a, FDiv(Num(size), Num(2)))

\* C29: for every traced contour that is not empty, createGeometry divides
\* by extents that are not zero: maxX - minX > 0 and maxY - minY > 0, so
\* that every coordinate of the shape is a finite number of
\* [-size / 2, size / 2], also when the contour is a single pixel, a single
\* row or a single column.
C29_ExtentsNonzero ==
    (mesh = "legacy" /\ outline # <<>>) =>
        /\ bounds.maxX - bounds.minX > 0
        /\ bounds.maxY - bounds.minY > 0
        /\ Len(shape) = Len(outline)
        /\ \A i \in 1..Len(shape) :
              WithinHalfSize(shape[i][1]) /\ WithinHalfSize(shape[i][2])

-----------------------------------------------------------------------------
(* Animation, dispose and the demo.                                        *)

\* C24: for an animated image with default options (no customMaterial) the
\* displayed frame index is always within 0..n-1 and, as animation frames
\* keep occurring, every frame index of 0..n-1 eventually becomes the
\* displayed frame (unless the object is disposed of).
C24_EveryFrameShown ==
    /\ [](isGif => displayedFrame \in 0..(Len(gif) - 1))
    /\ \A k \in 0..(MaxFrames - 1) :
          (isGif /\ customMaterial = "none" /\ k < Len(gif))
              ~> (displayedFrame = k \/ disposed)

\* C28: once dispose() has returned, in every later state this.mesh is
\* null, the object has no mesh child and no animation frame is pending
\* (so none runs again), also when dispose() was called before the load
\* started by the constructor has resolved.
C28_DisposeIsFinal ==
    disposed =>
        /\ mesh = "null"
        /\ children = <<>>
        /\ ~frameRequested
        /\ animationId = "null"

\* C30: in the demo the slider's handler never reads through a null
\* material: whenever handleThicknessChange runs with currentMesh set,
\* currentMesh.material is not null.
C30_SliderFindsMaterial ==
    thrown # "material is null"

====
